---- MODULE Spec2Model ----
(***************************************************************************)
(* A model of pypanda/puma.py: the network normaliser, the affinity        *)
(* transform (t_function), the diagonal stabiliser (update_diagonal), the  *)
(* message-passing loop puma_loop with its miRNA constraint mask, the      *)
(* expanded result table, and the miRNA index lookup of Puma.__init__.     *)
(*                                                                         *)
(* Numbers.  numpy's float64 values are modelled as fixed-point numbers:   *)
(* the integer v stands for the real v / Scale.  A number is the tuple     *)
(* <<v>>; the float NaN is the empty tuple.  Products of two numbers are   *)
(* kept exactly (in units of 1/Scale^2) until the quotient or square root  *)
(* that consumes them, so the only rounding is the one of a division, a    *)
(* square root or a blend.                                                 *)
(***************************************************************************)
EXTENDS Integers, Sequences, FiniteSets, TLC

\* ------------------------------------------------------------------ bounds
Scale == 1000          \* fixed-point resolution: one unit is 1/Scale
MaxStep == 3           \* iterations of the while loop the model follows
MaxMiR == 2            \* longest miRNA name list
MaxCells == 6          \* largest matrix handed to _normalize_network

\* ------------------------------------------------------- program constants
AlphaNum == 1          \* alpha = 0.1 = AlphaNum / AlphaDen
AlphaDen == 10
ThresholdDen == 1000   \* the literal 0.001 = 1 / ThresholdDen

\* --------------------------------------------------------------- numbers
NaN == <<>>
Num(v) == <<v>>
IsNaN(a) == a = NaN
Val(a) == a[1]

AbsInt(n) == IF n < 0 THEN -n ELSE n

\* Integer quotient rounded toward zero (d > 0).
Quot(n, d) == IF n >= 0 THEN n \div d ELSE -((-n) \div d)

RECURSIVE IsqrtIn(_, _, _)
IsqrtIn(n, lo, hi) ==
    IF lo >= hi THEN lo
    ELSE LET mid == (lo + hi + 1) \div 2
         IN IF mid * mid <= n THEN IsqrtIn(n, mid, hi) ELSE IsqrtIn(n, lo, mid - 1)

\* floor(sqrt(n)) for 0 <= n < 2^31.
Isqrt(n) == IsqrtIn(n, 0, IF n < 46340 THEN n ELSE 46340)

Add(a, b) == IF IsNaN(a) \/ IsNaN(b) THEN NaN ELSE Num(Val(a) + Val(b))
Sub(a, b) == IF IsNaN(a) \/ IsNaN(b) THEN NaN ELSE Num(Val(a) - Val(b))
Abs(a) == IF IsNaN(a) THEN NaN ELSE Num(AbsInt(Val(a)))

\* a * (n/d) for the rational n/d, d > 0.
Times(a, n, d) == IF IsNaN(a) THEN NaN ELSE Num(Quot(Val(a) * n, d))

\* Python's a > b on floats: False as soon as one side is NaN.
Gt(a, b) == ~IsNaN(a) /\ ~IsNaN(b) /\ Val(a) > Val(b)
Le(a, b) == ~IsNaN(a) /\ ~IsNaN(b) /\ Val(a) <= Val(b)

Threshold == Num(Quot(Scale, ThresholdDen))

RECURSIVE SumInts(_)
SumInts(s) == IF s = <<>> THEN 0 ELSE Head(s) + SumInts(Tail(s))

\* ---------------------------------------------------------------- matrices
\* A matrix is a sequence of rows, each a sequence of numbers.
NRows(m) == Len(m)
NCols(m) == Len(m[1])
Transpose(m) == [j \in 1..NCols(m) |-> [i \in 1..NRows(m) |-> m[i][j]]]
Column(m, j) == [i \in 1..NRows(m) |-> m[i][j]]
HasNaN(v) == \E k \in 1..Len(v) : IsNaN(v[k])
IsSymmetric(m) ==
    /\ NRows(m) = NCols(m)
    /\ \A i, j \in 1..NRows(m) : m[i][j] = m[j][i]

\* sum of squares of a vector without NaN, exact, in units of 1/Scale^2
SumSq(v) == SumInts([k \in 1..Len(v) |-> Val(v[k]) * Val(v[k])])
\* dot product of two vectors without NaN, exact, in units of 1/Scale^2
Dot(u, v) == SumInts([k \in 1..Len(u) |-> Val(u[k]) * Val(v[k])])

\* ------------------------------------------------------------- t_function
\* One cell of either form: num is the dot product and sx, sy the two sums
\* of squares, all exact.  sx + sy - |num| >= (sx + sy)/2, so the
\* denominator is 0 only when both vectors are 0, and then the cell is 0/0.
AffinityCell(u, v) ==
    IF HasNaN(u) \/ HasNaN(v) THEN NaN
    ELSE LET num == Dot(u, v)
             den == Isqrt(SumSq(v) + SumSq(u) - AbsInt(num))
         IN IF den = 0 THEN NaN ELSE Num(Quot(num, den))

\* t_function(x, y): a_matrix = dot(x, y) / sqrt(colsumsq(y) + rowsumsq(x) - |a|)
t_function(x, y) ==
    [i \in 1..NRows(x) |-> [j \in 1..NCols(y) |-> AffinityCell(x[i], Column(y, j))]]

\* t_function(x) with y None: a_matrix = dot(x, x.T) / sqrt(s + s.T - |a|)
t_function_self(x) ==
    [i \in 1..NRows(x) |-> [j \in 1..NRows(x) |-> AffinityCell(x[i], x[j])]]

\* -------------------------------------------------------- update_diagonal
\* np.nanstd of a vector: population standard deviation of its entries
\* that are not NaN; NaN when there is none.
NanStd(v) ==
    LET w == SelectSeq(v, LAMBDA a : ~IsNaN(a))
        k == Len(w)
    IN IF k = 0 THEN NaN
       ELSE LET s == SumInts([n \in 1..k |-> Val(w[n])])
                d == [n \in 1..k |-> k * Val(w[n]) - s]
            IN Num(Isqrt(SumInts([n \in 1..k |-> d[n] * d[n]]) \div k) \div k)

RECURSIVE ExpSeries(_, _, _)
ExpSeries(xu, n, term) ==
    IF term = 0 \/ n > 12 THEN 0
    ELSE term + ExpSeries(xu, n + 1, Quot(term * xu, n * Scale))

\* math.exp of xu / Scale >= 0, by its power series
Exp(xu) == ExpSeries(xu, 1, Scale)

\* np.fill_diagonal(m, vals)
fill_diagonal(m, vals) ==
    [i \in 1..NRows(m) |-> [j \in 1..NCols(m) |-> IF i = j THEN vals[i] ELSE m[i][j]]]

\* A faulty variant of update_diagonal: the factor exp(2 * alpha * step) is left out.
update_diagonal_no_exp(diagonal_matrix, num, an, ad, st) ==
    LET holed == fill_diagonal(diagonal_matrix, [i \in 1..NRows(diagonal_matrix) |-> NaN])
    IN fill_diagonal(holed, [i \in 1..NRows(holed) |-> Times(NanStd(holed[i]), num, 1)])

\* update_diagonal(diagonal_matrix, num, alpha, step), alpha = an/ad
update_diagonal(diagonal_matrix, num, an, ad, st) ==
    LET holed == fill_diagonal(diagonal_matrix, [i \in 1..NRows(diagonal_matrix) |-> NaN])
        diagonal_std == [i \in 1..NRows(holed) |-> NanStd(holed[i])]
        diagonal_fill == [i \in 1..NRows(holed) |->
            Times(Times(diagonal_std[i], num, 1), Exp(Quot(2 * an * st * Scale, ad)), Scale)]
    IN fill_diagonal(holed, diagonal_fill)

\* ------------------------------------------------------ pieces of the loop
\* m *= (1 - alpha); m += alpha * upd
Blend(m, upd) ==
    [i \in 1..NRows(m) |-> [j \in 1..NCols(m) |->
        Add(Times(m[i][j], AlphaDen - AlphaNum, AlphaDen),
            Times(upd[i][j], AlphaNum, AlphaDen))]]

\* W = 0.5 * (t_function(ppi_matrix, motif_matrix) + t_function(motif_matrix, correlation_matrix))
Responsibility(p, m, c) ==
    LET r == t_function(p, m)
        a == t_function(m, c)
    IN [i \in 1..NRows(m) |-> [j \in 1..NCols(m) |-> Times(Add(r[i][j], a[i][j]), 1, 2)]]

\* np.abs(m - w).mean()
MeanAbsDiff(m, w) ==
    LET cells == [k \in 1..(NRows(m) * NCols(m)) |->
                    Abs(Sub(m[((k - 1) \div NCols(m)) + 1][((k - 1) % NCols(m)) + 1],
                            w[((k - 1) \div NCols(m)) + 1][((k - 1) % NCols(m)) + 1]))]
    IN IF HasNaN(cells) THEN NaN
       ELSE Num(Quot(SumInts([k \in 1..Len(cells) |-> Val(cells[k])]), Len(cells)))

Range(s) == {s[k] : k \in 1..Len(s)}

\* m[idx] = src[idx]
AssignRows(m, src, idx) ==
    [i \in 1..NRows(m) |-> IF i \in Range(idx) THEN src[i] ELSE m[i]]

\* A faulty variant of AssignCols: the column assignment is left out.
AssignColsSkipped(m, src, idx) == m

\* m[:, idx] = src[:, idx]
AssignCols(m, src, idx) ==
    [i \in 1..NRows(m) |-> [j \in 1..NCols(m) |->
        IF j \in Range(idx) THEN src[i][j] ELSE m[i][j]]]

\* m.diagonal(): numpy hands out a view of m's diagonal, not a copy; what
\* the view holds is whatever m holds when the view is read.
Diagonal(m) == [i \in 1..NRows(m) |-> m[i][i]]

\* ------------------------------------------------------------------ state
VARIABLES
    pc,                          \* where the program is
    unique_tfs, gene_names,      \* self.unique_tfs, self.gene_names (names by rank)
    miR,                         \* the lines of the miRNA file
    s1,                          \* self.s1, as 1-based positions
    save_memory,                 \* the constructor's save_memory flag
    motif_matrix_unnormalized,   \* self.motif_matrix_unnormalized
    tmp_motif_normalized,        \* /tmp/motif.normalized.npy, written before the loop
    correlation_matrix, motif_matrix, ppi_matrix,   \* the three arrays of the loop
    TFCoopInit,                  \* the copy of ppi_matrix taken before the loop
    step, hamming,               \* the loop's counter and its convergence statistic
    ppi, motif,                  \* the per-iteration updates (deleted after use)
    export_puma_results,         \* self.export_puma_results
    x, normalized_matrix         \* argument and result of _normalize_network

vars == <<pc, unique_tfs, gene_names, miR, s1, save_memory, motif_matrix_unnormalized,
          tmp_motif_normalized, correlation_matrix, motif_matrix, ppi_matrix,
          TFCoopInit, step, hamming, ppi, motif, export_puma_results, x,
          normalized_matrix>>

None == <<>>     \* a name that is not bound (never read while unbound)

num_tfs == NRows(motif_matrix)
num_genes == NCols(motif_matrix)

\* ------------------------------------------------------------- puma_loop
\* TFCoopInit = ppi_matrix.copy(); step = 0; hamming = 1; alpha = 0.1
EnterLoop ==
    /\ pc = "enter"
    /\ TFCoopInit' = ppi_matrix
    /\ step' = 0
    /\ hamming' = Num(Scale)
    /\ pc' = "while"
    /\ UNCHANGED <<unique_tfs, gene_names, miR, s1, save_memory, motif_matrix_unnormalized,
                   tmp_motif_normalized, correlation_matrix, motif_matrix, ppi_matrix,
                   ppi, motif, export_puma_results, x, normalized_matrix>>

\* A faulty variant of SecondaryGuard: the secondary updates run on every iteration.
SecondaryGuardAlways(h) == TRUE

\* if hamming > 0.001:   (the guard of the PPI and correlation updates)
SecondaryGuard(h) == Gt(h, Threshold)

\* while hamming > 0.001:
LoopGuard(h) == Gt(h, Threshold)

LoopTest ==
    /\ pc = "while"
    /\ IF LoopGuard(hamming)
       THEN step < MaxStep /\ pc' = "motif"
       ELSE pc' = "export"
    /\ UNCHANGED <<unique_tfs, gene_names, miR, s1, save_memory, motif_matrix_unnormalized,
                   tmp_motif_normalized, correlation_matrix, motif_matrix, ppi_matrix,
                   TFCoopInit, step, hamming, ppi, motif, export_puma_results, x,
                   normalized_matrix>>

\* W = ...; hamming = np.abs(motif_matrix - W).mean(); motif_matrix blended in place;
\* if hamming > 0.001: ...
UpdateMotif ==
    /\ pc = "motif"
    /\ LET W == Responsibility(ppi_matrix, motif_matrix, correlation_matrix)
       IN /\ hamming' = MeanAbsDiff(motif_matrix, W)
          /\ motif_matrix' = Blend(motif_matrix, W)
    /\ pc' = IF SecondaryGuard(hamming') THEN "ppi" ELSE "step"
    /\ UNCHANGED <<unique_tfs, gene_names, miR, s1, save_memory, motif_matrix_unnormalized,
                   tmp_motif_normalized, correlation_matrix, ppi_matrix, TFCoopInit, step,
                   ppi, motif, export_puma_results, x, normalized_matrix>>

\* ppi = t_function(motif_matrix); update_diagonal(ppi, num_tfs, alpha, step)
ComputePPIUpdate ==
    /\ pc = "ppi"
    /\ ppi' = update_diagonal(t_function_self(motif_matrix), num_tfs, AlphaNum, AlphaDen, step)
    /\ pc' = "ppiblend"
    /\ UNCHANGED <<unique_tfs, gene_names, miR, s1, save_memory, motif_matrix_unnormalized,
                   tmp_motif_normalized, correlation_matrix, motif_matrix, ppi_matrix,
                   TFCoopInit, step, hamming, motif, export_puma_results, x,
                   normalized_matrix>>

\* ppi_matrix *= (1 - alpha); ppi_matrix += (alpha * ppi)
BlendPPI ==
    /\ pc = "ppiblend"
    /\ ppi_matrix' = Blend(ppi_matrix, ppi)
    /\ pc' = "mask"
    /\ UNCHANGED <<unique_tfs, gene_names, miR, s1, save_memory, motif_matrix_unnormalized,
                   tmp_motif_normalized, correlation_matrix, motif_matrix, TFCoopInit,
                   step, hamming, ppi, motif, export_puma_results, x, normalized_matrix>>

\* A faulty variant of MaskSource: TFCoopInit = ppi_matrix without .copy() is the
\* blended array itself.
MaskSourceAliased == ppi_matrix

\* What the two mask assignments read: the copy taken before the loop.
MaskSource == TFCoopInit

\* TFCoopDiag = ppi_matrix.diagonal()
\* ppi_matrix[self.s1] = TFCoopInit[self.s1]
\* ppi_matrix[:, self.s1] = TFCoopInit[:, self.s1]
\* np.fill_diagonal(ppi_matrix, TFCoopDiag)
\* TFCoopDiag is a view of ppi_matrix, so fill_diagonal reads the diagonal
\* the two assignments have just written.
Masked(m, src, idx) ==
    LET rows == AssignRows(m, src, idx)
        cols == AssignCols(rows, src, idx)
        TFCoopDiag == Diagonal(cols)
    IN fill_diagonal(cols, TFCoopDiag)

ApplyMask ==
    /\ pc = "mask"
    /\ ppi_matrix' = Masked(ppi_matrix, MaskSource, s1)
    /\ pc' = "corr"
    /\ UNCHANGED <<unique_tfs, gene_names, miR, s1, save_memory, motif_matrix_unnormalized,
                   tmp_motif_normalized, correlation_matrix, motif_matrix, TFCoopInit,
                   step, hamming, ppi, motif, export_puma_results, x, normalized_matrix>>

\* motif = t_function(motif_matrix.T); update_diagonal(motif, num_genes, alpha, step)
ComputeCorrUpdate ==
    /\ pc = "corr"
    /\ motif' = update_diagonal(t_function_self(Transpose(motif_matrix)), num_genes,
                                AlphaNum, AlphaDen, step)
    /\ pc' = "corrblend"
    /\ UNCHANGED <<unique_tfs, gene_names, miR, s1, save_memory, motif_matrix_unnormalized,
                   tmp_motif_normalized, correlation_matrix, motif_matrix, ppi_matrix,
                   TFCoopInit, step, hamming, ppi, export_puma_results, x,
                   normalized_matrix>>

\* correlation_matrix *= (1 - alpha); correlation_matrix += (alpha * motif); del W, ppi, motif
BlendCorr ==
    /\ pc = "corrblend"
    /\ correlation_matrix' = Blend(correlation_matrix, motif)
    /\ ppi' = None
    /\ motif' = None
    /\ pc' = "step"
    /\ UNCHANGED <<unique_tfs, gene_names, miR, s1, save_memory, motif_matrix_unnormalized,
                   tmp_motif_normalized, motif_matrix, ppi_matrix, TFCoopInit, step,
                   hamming, export_puma_results, x, normalized_matrix>>

\* step = step + 1
NextStep ==
    /\ pc = "step"
    /\ step' = step + 1
    /\ pc' = "while"
    /\ UNCHANGED <<unique_tfs, gene_names, miR, s1, save_memory, motif_matrix_unnormalized,
                   tmp_motif_normalized, correlation_matrix, motif_matrix, ppi_matrix,
                   TFCoopInit, hamming, ppi, motif, export_puma_results, x,
                   normalized_matrix>>

\* ------------------------------------------------------ the expanded table
\* A faulty variant of Tile: each label repeated in place, as np.repeat does.
TileAsRepeat(v, reps) == [k \in 1..(Len(v) * reps) |-> v[((k - 1) \div reps) + 1]]

\* np.tile(v, (reps, 1)).flatten()
Tile(v, reps) == [k \in 1..(Len(v) * reps) |-> v[((k - 1) % Len(v)) + 1]]

\* np.repeat(v, n)
Repeat(v, n) == [k \in 1..(Len(v) * n) |-> v[((k - 1) \div n) + 1]]

\* A faulty variant of FlattenF: flatten() in its default order, row after row.
FlattenC(m) ==
    [k \in 1..(NRows(m) * NCols(m)) |-> m[((k - 1) \div NCols(m)) + 1][((k - 1) % NCols(m)) + 1]]

\* m.flatten(order='F'): column after column
FlattenF(m) ==
    [k \in 1..(NRows(m) * NCols(m)) |-> m[((k - 1) % NRows(m)) + 1][((k - 1) \div NRows(m)) + 1]]

\* np.column_stack((a, b, c, d))
ColumnStack(a, b, c, d) == [k \in 1..Len(a) |-> <<a[k], b[k], c[k], d[k]>>]

\* self.motif_matrix and the loop's motif_matrix are one array: the loop
\* blends it in place, so the attribute holds what the loop returns.
SelfMotifMatrix == motif_matrix

\* if hasattr(self, 'unique_tfs'): ... self.export_puma_results = ...; return motif_matrix
Export ==
    /\ pc = "export"
    /\ IF ~save_memory
       THEN LET tfs == Tile(unique_tfs, Len(gene_names))
                genes == Repeat(gene_names, Len(unique_tfs))
                prior == FlattenF(motif_matrix_unnormalized)
                force == FlattenF(SelfMotifMatrix)
            IN export_puma_results' = ColumnStack(tfs, genes, prior, force)
       ELSE UNCHANGED export_puma_results
    /\ pc' = "done"
    /\ UNCHANGED <<unique_tfs, gene_names, miR, s1, save_memory, motif_matrix_unnormalized,
                   tmp_motif_normalized, correlation_matrix, motif_matrix, ppi_matrix,
                   TFCoopInit, step, hamming, ppi, motif, x, normalized_matrix>>

\* ------------------------------------------------- inputs of puma_loop
\* (number of TFs, number of genes)
Shapes == {<<2, 2>>, <<2, 3>>, <<3, 2>>}

\* A TFs x genes matrix with a on the cells of even i + j and b on the others.
Checker(t, g, a, b) ==
    [i \in 1..t |-> [j \in 1..g |-> IF (i + j) % 2 = 0 THEN a ELSE b]]

\* A TFs x genes matrix with a in its first column and b elsewhere.
Stripe(t, g, a, b) ==
    [i \in 1..t |-> [j \in 1..g |-> IF j = 1 THEN a ELSE b]]

\* A symmetric n x n matrix: d i on the diagonal, o (i + j - 2) beside it.
SymMatrix(n, d, o) ==
    [i \in 1..n |-> [j \in 1..n |-> IF i = j THEN Num(d * i) ELSE Num(o * (i + j - 2))]]

\* Working motif matrices: all 0 (a fixed point), small (converges after one
\* full iteration), of the size z-scores have (does not converge within
\* MaxStep), with NaN cells as _normalize_network leaves them, and with a
\* zero column.
MotifInputs(t, g) ==
    { Checker(t, g, Num(0), Num(0)),
      Checker(t, g, Num(10), Num(-20)),
      Checker(t, g, Num(1000), Num(-1000)),
      Checker(t, g, Num(700), Num(-1400)),
      Checker(t, g, NaN, Num(1000)),
      Stripe(t, g, Num(0), Num(1000)) }

PPIInputs(t) == { SymMatrix(t, 900, 500), SymMatrix(t, 100, 0), SymMatrix(t, 0, 0) }

CorrInputs(g) == { SymMatrix(g, 900, 200), SymMatrix(g, 100, 0) }

\* 0/1 motif priors
PriorInputs(t, g) == { Checker(t, g, Num(Scale), Num(0)), Stripe(t, g, Num(0), Num(Scale)) }

SeqsUpTo(S, n) == UNION {[1..k -> S] : k \in 0..n}

\* Names are modelled by their rank in the order sorted() puts them in.
TFNameList(t) == [i \in 1..t |-> i]
GeneNameList(g) == [j \in 1..g |-> 10 + j]

\* The state in which __init__ calls puma_loop.
Init ==
    /\ pc = "enter"
    /\ save_memory \in BOOLEAN
    /\ \E sh \in Shapes :
         /\ motif_matrix \in MotifInputs(sh[1], sh[2])
         /\ ppi_matrix \in PPIInputs(sh[1])
         /\ correlation_matrix \in CorrInputs(sh[2])
         /\ s1 \in SeqsUpTo(1..sh[1], MaxMiR)
         /\ IF save_memory
            THEN unique_tfs = None /\ gene_names = None /\ motif_matrix_unnormalized = None
            ELSE /\ unique_tfs = TFNameList(sh[1])
                 /\ gene_names = GeneNameList(sh[2])
                 /\ motif_matrix_unnormalized \in PriorInputs(sh[1], sh[2])
    /\ tmp_motif_normalized = motif_matrix
    /\ miR = None
    /\ TFCoopInit = None
    /\ step = 0
    /\ hamming = None
    /\ ppi = None
    /\ motif = None
    /\ export_puma_results = None
    /\ x = None
    /\ normalized_matrix = None

Next ==
    \/ EnterLoop
    \/ LoopTest
    \/ UpdateMotif
    \/ ComputePPIUpdate
    \/ BlendPPI
    \/ ApplyMask
    \/ ComputeCorrUpdate
    \/ BlendCorr
    \/ NextStep
    \/ Export

Spec == Init /\ [][Next]_vars

\* ------------------------------------------- __init__: the miRNA lookup
MaxName == 4           \* names are 1..MaxName

\* np.argsort(v): the positions of v in ascending order of their entries
Argsort(v) ==
    CHOOSE p \in [1..Len(v) -> 1..Len(v)] :
        \A a, b \in 1..Len(v) :
            a < b => v[p[a]] < v[p[b]] \/ (v[p[a]] = v[p[b]] /\ p[a] < p[b])

\* np.searchsorted(v, q, sorter=sorter): for each entry of q the leftmost
\* insertion point, counted from 0: the number of entries of v below it.
SearchSorted(v, q, sorter) ==
    [k \in 1..Len(q) |-> Cardinality({a \in 1..Len(v) : v[sorter[a]] < q[k]})]

\* sorted(set(...)): the members of S in ascending order
Sorted(S) ==
    CHOOSE f \in [1..Cardinality(S) -> S] :
        \A a, b \in 1..Cardinality(S) : a < b => f[a] < f[b]

\* sort_idx = np.argsort(TFNames)
\* self.s1 = sort_idx[np.searchsorted(TFNames, miR, sorter=sort_idx)]
\* Indexing sort_idx at len(TFNames) raises IndexError.  Positions are kept
\* 1-based here: numpy's position p is p + 1.
LoadMiR ==
    /\ pc = "loadmir"
    /\ LET TFNames == unique_tfs
           sort_idx == Argsort(TFNames)
           found == SearchSorted(TFNames, miR, sort_idx)
       IN IF \E k \in 1..Len(found) : found[k] >= Len(sort_idx)
          THEN pc' = "IndexError" /\ s1' = s1
          ELSE pc' = "mir_loaded" /\ s1' = [k \in 1..Len(found) |-> sort_idx[found[k] + 1]]
    /\ UNCHANGED <<unique_tfs, gene_names, miR, save_memory, motif_matrix_unnormalized,
                   tmp_motif_normalized, correlation_matrix, motif_matrix, ppi_matrix,
                   TFCoopInit, step, hamming, ppi, motif, export_puma_results, x,
                   normalized_matrix>>

InitMiR ==
    /\ pc = "loadmir"
    /\ \E S \in (SUBSET (1..MaxName)) \ {{}} : unique_tfs = Sorted(S)
    /\ miR \in SeqsUpTo(1..MaxName, MaxMiR)
    /\ s1 = None
    /\ save_memory = FALSE
    /\ gene_names = None
    /\ motif_matrix_unnormalized = None
    /\ tmp_motif_normalized = None
    /\ correlation_matrix = None
    /\ motif_matrix = None
    /\ ppi_matrix = None
    /\ TFCoopInit = None
    /\ step = 0
    /\ hamming = None
    /\ ppi = None
    /\ motif = None
    /\ export_puma_results = None
    /\ x = None
    /\ normalized_matrix = None

SpecMiR == InitMiR /\ [][LoadMiR]_vars

\* ---------------------------------------------------- _normalize_network
\* (v - mean(v)) / std(v) for the k-th entry of v, with n = len(v):
\* (n v[k] - sum(v)) / sqrt(sum((n v - sum(v))^2) / n).  A standard deviation
\* that is not 0 is not rounded to 0; a 0 one gives 0/0.
ZScoreEntry(v, k) ==
    IF HasNaN(v) THEN NaN
    ELSE LET n == Len(v)
             s == SumInts([a \in 1..n |-> Val(v[a])])
             d == [a \in 1..n |-> n * Val(v[a]) - s]
             sq == SumInts([a \in 1..n |-> d[a] * d[a]])
             root == Isqrt(sq \div n)
             den == IF sq > 0 /\ root = 0 THEN 1 ELSE root
         IN IF den = 0 THEN NaN ELSE Num(Quot(d[k] * Scale, den))

FlattenRows(m) ==
    [k \in 1..(NRows(m) * NCols(m)) |-> m[((k - 1) \div NCols(m)) + 1][((k - 1) % NCols(m)) + 1]]

\* norm_col = zscore(x, axis=0)
NormCol(m) ==
    [i \in 1..NRows(m) |-> [j \in 1..NCols(m) |-> ZScoreEntry(Column(m, j), i)]]

\* norm_row = norm_col.T if x is square, else zscore(x, axis=1)
NormRow(m) ==
    IF NRows(m) = NCols(m) THEN Transpose(NormCol(m))
    ELSE [i \in 1..NRows(m) |-> [j \in 1..NCols(m) |-> ZScoreEntry(m[i], j)]]

\* norm_total = (x - np.mean(x)) / np.std(x)
NormTotal(m) ==
    [i \in 1..NRows(m) |-> [j \in 1..NCols(m) |->
        ZScoreEntry(FlattenRows(m), (i - 1) * NCols(m) + j)]]

\* a / math.sqrt(2)
OverSqrt2(a) == Times(a, Scale, Isqrt(2 * Scale * Scale))

\* (a + b) / math.sqrt(2), cell by cell
HalfSum(a, b) ==
    [i \in 1..NRows(a) |-> [j \in 1..NCols(a) |-> OverSqrt2(Add(a[i][j], b[i][j]))]]

\* A faulty variant of MaskAssign: the assignment does nothing.
MaskAssignDropped(m, mask, vals) == m

\* m[mask] = vals[mask]
MaskAssign(m, mask, vals) ==
    [i \in 1..NRows(m) |-> [j \in 1..NCols(m) |->
        IF mask[i][j] THEN vals[i][j] ELSE m[i][j]]]

_normalize_network(m) ==
    LET norm_col == NormCol(m)
        norm_row == NormRow(m)
        base == HalfSum(norm_col, norm_row)
        norm_total == NormTotal(m)
        nan_col == [i \in 1..NRows(m) |-> [j \in 1..NCols(m) |-> IsNaN(norm_col[i][j])]]
        nan_row == [i \in 1..NRows(m) |-> [j \in 1..NCols(m) |-> IsNaN(norm_row[i][j])]]
        both == [i \in 1..NRows(m) |-> [j \in 1..NCols(m) |-> nan_col[i][j] /\ nan_row[i][j]]]
        first == MaskAssign(base, nan_col, HalfSum(norm_row, norm_total))
        second == MaskAssign(first, nan_row, HalfSum(norm_col, norm_total))
    IN MaskAssign(second, both, HalfSum(norm_col, norm_col))

\* self._normalize_network(x)
Normalize ==
    /\ pc = "normalize"
    /\ normalized_matrix' = _normalize_network(x)
    /\ pc' = "normalized"
    /\ UNCHANGED <<unique_tfs, gene_names, miR, s1, save_memory, motif_matrix_unnormalized,
                   tmp_motif_normalized, correlation_matrix, motif_matrix, ppi_matrix,
                   TFCoopInit, step, hamming, ppi, motif, export_puma_results, x>>

RawValues == {Num(0), Num(1000), Num(3000)}

RawShapes == {sh \in (1..MaxCells) \X (1..MaxCells) : sh[1] * sh[2] <= MaxCells}

RawMatrices == UNION {[1..sh[1] -> [1..sh[2] -> RawValues]] : sh \in RawShapes}

InitNormalize ==
    /\ pc = "normalize"
    /\ x \in RawMatrices
    /\ normalized_matrix = None
    /\ unique_tfs = None
    /\ gene_names = None
    /\ miR = None
    /\ s1 = None
    /\ save_memory = FALSE
    /\ motif_matrix_unnormalized = None
    /\ tmp_motif_normalized = None
    /\ correlation_matrix = None
    /\ motif_matrix = None
    /\ ppi_matrix = None
    /\ TFCoopInit = None
    /\ step = 0
    /\ hamming = None
    /\ ppi = None
    /\ motif = None
    /\ export_puma_results = None

SpecNormalize == InitNormalize /\ [][Normalize]_vars

\* ================================================================ claims
AfterMask == {"corr", "corrblend", "step", "while", "export", "done"}
InLoop == {"while", "motif", "ppi", "ppiblend", "mask", "corr", "corrblend", "step"}

\* C1: the iteration whose hamming is not above 0.001 is the last one.  Its
\* motif blend is applied like any other; PPIMatrix and CorrelationMatrix
\* change only in an iteration whose hamming is above the threshold, and once
\* an iteration has computed a hamming that is not above it nothing changes
\* any of the three matrices again and no iteration starts.  An iteration
\* whose hamming is above the threshold goes through the PPI update, the mask
\* and the correlation update, and then back to the loop test and into the
\* next iteration.
C1_LastIteration ==
    [][ /\ (pc = "motif" =>
              motif_matrix' = Blend(motif_matrix,
                                 Responsibility(ppi_matrix, motif_matrix, correlation_matrix)))
        /\ (ppi_matrix' # ppi_matrix \/ correlation_matrix' # correlation_matrix
              => pc \in InLoop /\ Gt(hamming, Threshold))
        /\ (pc \in {"step", "while"} /\ ~Gt(hamming, Threshold)
              => /\ UNCHANGED <<motif_matrix, ppi_matrix, correlation_matrix, hamming>>
                 /\ pc' \in {"while", "export"})
        /\ (pc \in {"export", "done"} => UNCHANGED <<motif_matrix, ppi_matrix, correlation_matrix>>)
        /\ (pc = "motif" /\ Gt(hamming', Threshold) => pc' = "ppi")
        /\ (pc = "ppi" => pc' = "ppiblend")
        /\ (pc = "ppiblend" => pc' = "mask" /\ ppi_matrix' = Blend(ppi_matrix, ppi))
        /\ (pc = "mask" => pc' = "corr")
        /\ (pc = "corr" => pc' = "corrblend")
        /\ (pc = "corrblend" => pc' = "step" /\ correlation_matrix' = Blend(correlation_matrix, motif))
        /\ (pc \in {"step", "while"} /\ Gt(hamming, Threshold)
              => pc' = IF pc = "step" THEN "while" ELSE "motif")
      ]_vars

\* A run that made one full iteration and then a terminating one: the motif
\* matrix was blended in both, the PPI matrix only in the first.
C1_Witness ==
    /\ pc = "export"
    /\ step = 2
    /\ Le(hamming, Threshold)
    /\ motif_matrix # tmp_motif_normalized
    /\ ppi_matrix # TFCoopInit

\* C2: PPIMatrix and CorrelationMatrix are symmetric at every point of the
\* loop: after each blend with a stabilised t_function result and after the
\* constraint mask.
C2_Symmetric ==
    pc # "enter" => IsSymmetric(ppi_matrix) /\ IsSymmetric(correlation_matrix)

\* The mask has pinned one TF of several and the blend has moved the rest.
C2_Witness ==
    /\ pc = "corr"
    /\ Range(s1) # {}
    /\ Range(s1) # 1..num_tfs
    /\ ppi_matrix # TFCoopInit
    /\ \E i \in Range(s1), j \in 1..num_tfs : ~IsNaN(ppi[i][j]) /\ ppi[i][j] # Num(0)

Pinned ==
    \A i \in Range(s1), j \in 1..num_tfs :
        j # i => ppi_matrix[i][j] = TFCoopInit[i][j] /\ ppi_matrix[j][i] = TFCoopInit[j][i]

\* C3: once the mask has run, and to the end of the iteration, the rows and
\* columns of the ConstraintIndexSet hold, off the diagonal, the values
\* PPIMatrix had before the loop; TFCoopInit is the PPIMatrix of loop entry
\* and neither it nor the ConstraintIndexSet changes afterwards.
C3_PinnedToInitial ==
    [][ /\ (pc' \in AfterMask => Pinned')
        /\ (pc = "enter" => TFCoopInit' = ppi_matrix)
        /\ (pc # "enter" => TFCoopInit' = TFCoopInit)
        /\ s1' = s1
      ]_vars

\* The mask has just overwritten an off-diagonal cell the blend had moved.
C3_Witness ==
    /\ pc = "corr"
    /\ \E i \in Range(s1), j \in 1..num_tfs :
         /\ j # i
         /\ ~IsNaN(ppi[i][j])
         /\ Blend(TFCoopInit, ppi)[i][j] # ppi_matrix[i][j]

\* C4: the mask leaves every diagonal entry of PPIMatrix at the value the
\* blend of the same iteration gave it.
C4_DiagonalKept ==
    [][ pc = "mask" => \A i \in 1..num_tfs : ppi_matrix'[i][i] = ppi_matrix[i][i] ]_vars

\* C6: whenever the loop has ended, the last hamming is <= 0.001.
C6_EndsConverged ==
    pc \in {"export", "done"} => Le(hamming, Threshold)

\* The entries of a row other than its i-th.
OffDiagonal(row, i) == [k \in 1..(Len(row) - 1) |-> IF k < i THEN row[k] ELSE row[k + 1]]

\* std(non-diagonal entries of row i of m) * num * exp(2 * alpha * st)
StabilisedEntry(m, i, num, st) ==
    Times(Times(NanStd(OffDiagonal(m[i], i)), num, 1),
          Exp(Quot(2 * AlphaNum * st * Scale, AlphaDen)), Scale)

DiagonalsScaledBy(numForPPI, numForCorr) ==
    /\ pc = "ppiblend" =>
         \A i \in 1..num_tfs :
            ppi[i][i] = StabilisedEntry(t_function_self(motif_matrix), i, numForPPI, step)
    /\ pc = "corrblend" =>
         \A j \in 1..num_genes :
            motif[j][j] = StabilisedEntry(t_function_self(Transpose(motif_matrix)), j,
                                          numForCorr, step)

TfIndex(name) == CHOOSE i \in 1..Len(unique_tfs) : unique_tfs[i] = name
GeneIndex(name) == CHOOSE j \in 1..Len(gene_names) : gene_names[j] = name

\* C7: with metadata retained the table has one row per (TF, gene) pair, and
\* the row labelled (t, g) carries the unnormalized prior [t, g] and the
\* entry [t, g] of the motif matrix the loop returns.
C7_RowsAligned ==
    pc = "done" /\ ~save_memory =>
      /\ Len(export_puma_results) = num_tfs * num_genes
      /\ \A t \in 1..num_tfs, g \in 1..num_genes :
           Cardinality({k \in 1..Len(export_puma_results) :
               /\ export_puma_results[k][1] = unique_tfs[t]
               /\ export_puma_results[k][2] = gene_names[g]}) = 1
      /\ \A k \in 1..Len(export_puma_results) :
           LET r == export_puma_results[k]
           IN /\ r[3] = motif_matrix_unnormalized[TfIndex(r[1])][GeneIndex(r[2])]
              /\ r[4] = motif_matrix[TfIndex(r[1])][GeneIndex(r[2])]

\* A table built after the loop has changed the motif matrix, for a prior
\* that is not constant along either axis.
C7_Witness ==
    /\ pc = "done"
    /\ ~save_memory
    /\ step >= 1
    /\ motif_matrix # tmp_motif_normalized
    /\ \E k \in 1..Len(export_puma_results) :
         /\ ~IsNaN(export_puma_results[k][4])
         /\ export_puma_results[k][4] # tmp_motif_normalized[TfIndex(export_puma_results[k][1])]
                                                            [GeneIndex(export_puma_results[k][2])]

\* Row k comes before row n in the order "first by a, then by b".
RowsOrderedBy(a(_), b(_)) ==
    \A k, n \in 1..Len(export_puma_results) :
        k < n => \/ a(export_puma_results[k]) < a(export_puma_results[n])
                 \/ /\ a(export_puma_results[k]) = a(export_puma_results[n])
                    /\ b(export_puma_results[k]) < b(export_puma_results[n])

RowTf(r) == TfIndex(r[1])
RowGene(r) == GeneIndex(r[2])

\* C8 as stated: the TF varies slower: all genes of TF 0, then all genes of TF 1.
C8_TfSlower == pc = "done" /\ ~save_memory => RowsOrderedBy(RowTf, RowGene)

\* C8 as amended: the gene varies slower than the TF: all TFs for gene 0 come
\* first, then all TFs for gene 1, and so on.
C8_GeneSlower == pc = "done" /\ ~save_memory => RowsOrderedBy(RowGene, RowTf)

\* A table for three TFs and two genes.
C8_Witness ==
    /\ pc = "done"
    /\ ~save_memory
    /\ Len(export_puma_results) = 6
    /\ Len(unique_tfs) = 3

\* C5 as stated: the lookup never raises, and self.s1 holds exactly the
\* positions of the TF names that occur in the miRNA list.
C5_ExactMatches ==
    pc \in {"mir_loaded", "IndexError"} =>
      /\ pc # "IndexError"
      /\ Range(s1) = {i \in 1..Len(unique_tfs) : unique_tfs[i] \in Range(miR)}

\* The four-way select of one cell.
Select(colZ, rowZ, totalZ) ==
    IF ~IsNaN(colZ) /\ ~IsNaN(rowZ) THEN OverSqrt2(Add(colZ, rowZ))
    ELSE IF IsNaN(colZ) /\ ~IsNaN(rowZ) THEN OverSqrt2(Add(rowZ, totalZ))
    ELSE IF ~IsNaN(colZ) /\ IsNaN(rowZ) THEN OverSqrt2(Add(colZ, totalZ))
    ELSE NaN

\* C10: every cell of the result of _normalize_network is the four-way
\* select of colZ, rowZ and totalZ at that cell; where totalZ is defined the
\* cell is NaN exactly when colZ and rowZ both are.
C10_FourWaySelect ==
    pc = "normalized" =>
      /\ NRows(normalized_matrix) = NRows(x)
      /\ \A i \in 1..NRows(x) :
           /\ Len(normalized_matrix[i]) = NCols(x)
           /\ \A j \in 1..NCols(x) :
                /\ normalized_matrix[i][j] =
                     Select(NormCol(x)[i][j], NormRow(x)[i][j], NormTotal(x)[i][j])
                /\ ~IsNaN(NormTotal(x)[i][j]) =>
                     (IsNaN(normalized_matrix[i][j])
                        <=> IsNaN(NormCol(x)[i][j]) /\ IsNaN(NormRow(x)[i][j]))

\* A result that holds a cell of each of the four kinds.
C10_Witness ==
    /\ pc = "normalized"
    /\ \E i \in 1..NRows(x), j \in 1..NCols(x) :
         ~IsNaN(NormCol(x)[i][j]) /\ ~IsNaN(NormRow(x)[i][j])
    /\ \E i \in 1..NRows(x), j \in 1..NCols(x) :
         IsNaN(NormCol(x)[i][j]) /\ ~IsNaN(NormRow(x)[i][j]) /\ ~IsNaN(normalized_matrix[i][j])
    /\ \E i \in 1..NRows(x), j \in 1..NCols(x) :
         ~IsNaN(NormCol(x)[i][j]) /\ IsNaN(NormRow(x)[i][j]) /\ ~IsNaN(normalized_matrix[i][j])
    /\ \E i \in 1..NRows(x), j \in 1..NCols(x) :
         /\ IsNaN(NormCol(x)[i][j]) /\ IsNaN(NormRow(x)[i][j])
         /\ ~IsNaN(NormTotal(x)[i][j]) /\ IsNaN(normalized_matrix[i][j])

====
